---- MODULE Spec2Model ----
(***************************************************************************)
(* CoinCounter: bank-statement acquisition (Tochka.get_statement,          *)
(* Tochka.fetch_and_save_statements), transaction ingestion                *)
(* (Tochka._save_transaction) and the category matching engine             *)
(* (AdvancedCategoryMatcher) as a state machine.                           *)
(*                                                                         *)
(* Texts are sequences of one-character strings, so that lower(), strip(), *)
(* split(), re.split() and the substring test are computed and not         *)
(* assumed.  Scores are integers in hundredths (0.25 is 25, 1.0 is 100).   *)
(***************************************************************************)
EXTENDS Integers, Sequences, FiniteSets, TLC

VARIABLES
    \* ---- process state of the lexical processor (NLPProcessor.__init__)
    morph,          \* self.morph is not None (pymorphy2 available)
    wordnet,        \* self.wordnet is not None (RuWordNet loaded)
    \* ---- one call of the matching engine (inputs, then its result)
    m_text,         \* transaction_text
    m_keyword,      \* category_keyword of calculate_match_score
    m_base,         \* base_similarity of calculate_match_score
    m_table,        \* category_keywords of find_best_category
    m_threshold,    \* threshold of find_best_category
    m_score,        \* what calculate_match_score returned
    m_sim,          \* what calculate_similarity returned to that call
    m_sentences,    \* what split_into_sentences returned
    m_best,         \* what find_best_category returned
    m_pc,           \* "input", then "scored" or "matched"
    \* ---- one run of fetch_and_save_statements
    max_attempts,   \* settings.BANK_STATEMENT_MAX_ATTEMPTS
    pc,             \* position of the run
    acct,           \* index into BANK_ACCOUNTS of the account in progress
    status,         \* get_statement: status
    attempts,       \* get_statement: attempts
    polls,          \* history: GET requests issued by the current get_statement
    script,         \* the bank: what the statement being polled will answer
    acq,            \* history: per account, how its acquisition ended
    left,           \* entries of the current statement not yet ingested
    last,           \* history: the last _save_transaction call and its outcome
    failed_before,  \* history: an earlier payload of this batch raised
    \* ---- the database
    transactions,   \* Transaction rows, in insertion order
    origin,         \* history: per Transaction row, the payload it came from
    contractors,    \* Contractor rows, in insertion order
    categories,     \* ExpenseCategory names
    first_seen,     \* history: per INN, the name the first payload carried
    \* ---- the embedding provider and its cache
    client,         \* embedding.client is not None (OpenAI() was constructed)
    embedding_cache,\* rows (text, embedding) of the table embedding_cache
    written,        \* history: per text, the vector of the last committed write
    cur,            \* history: the last get_embedding call and how it went
    prev,           \* history: the get_embedding call before it
    running         \* per caller, the get_embedding call it is in the middle of

matchVars == <<m_text, m_keyword, m_base, m_table, m_threshold, m_sim, m_score,
               m_best, m_sentences, m_pc>>
nlpVars   == <<morph, wordnet>>
runVars   == <<max_attempts, pc, acct, status, attempts, polls, script, acq, left,
               last, failed_before>>
dbVars    == <<transactions, origin, contractors, categories, first_seen>>
embedVars == <<client, embedding_cache, written, cur, prev>>
raceVars  == <<running>>
vars      == <<nlpVars, matchVars, runVars, dbVars, embedVars, raceVars>>

NotRun == "not_run"
None   == "None"

(***************************************************************************)
(* Strings                                                                 *)
(***************************************************************************)
Min(a, b) == IF a <= b THEN a ELSE b
Max(a, b) == IF a >= b THEN a ELSE b

\* the characters of \s that texts here are made of
Whitespace == {" ", "\n"}

\* str.lower() on one character
LowerChar(c) == IF c = "A" THEN "a" ELSE IF c = "O" THEN "o" ELSE c

\* str.lower()
Lower(s) == [i \in 1..Len(s) |-> LowerChar(s[i])]

\* `k in t` for strings: k occurs in t as a contiguous substring
IsSubstr(k, t) ==
    \E i \in 1..(Len(t) + 1) :
        /\ i + Len(k) - 1 <= Len(t)
        /\ SubSeq(t, i, i + Len(k) - 1) = k

\* str.strip(): leading and trailing whitespace removed
RECURSIVE LStrip(_)
LStrip(s) == IF s # <<>> /\ Head(s) \in Whitespace THEN LStrip(Tail(s)) ELSE s

RECURSIVE RStrip(_)
RStrip(s) ==
    IF s # <<>> /\ s[Len(s)] \in Whitespace
    THEN RStrip(SubSeq(s, 1, Len(s) - 1))
    ELSE s

Strip(s) == RStrip(LStrip(s))

\* The pieces of s between separator characters (one piece more than there
\* are separators; pieces may be empty).
RECURSIVE SplitOn(_, _)
SplitOn(s, seps) ==
    IF s = <<>> THEN << <<>> >>
    ELSE LET rest == SplitOn(Tail(s), seps)
         IN  IF Head(s) \in seps
             THEN << <<>> >> \o rest
             ELSE << <<Head(s)>> \o Head(rest) >> \o Tail(rest)

NonEmpty(p) == p # <<>>

\* str.split() without argument: split on runs of whitespace, no empty token
SplitWords(s) == SelectSeq(SplitOn(s, Whitespace), NonEmpty)

Range(f) == {f[i] : i \in DOMAIN f}

(***************************************************************************)
(* The linguistic resources.  pymorphy2 and RuWordNet are libraries, not   *)
(* code of the repository: they are fixed dictionaries over a small        *)
(* vocabulary.  "abd" is an inflected form of the noun "abc", "xyz" is a   *)
(* synonym of "abc", "qqq" is a word that is neither noun nor verb, "ab"   *)
(* is a word of two letters.                                               *)
(***************************************************************************)
W_abc == <<"a", "b", "c">>
W_abd == <<"a", "b", "d">>
W_Abd == <<"A", "b", "d">>
W_xyz == <<"x", "y", "z">>
W_qqq == <<"q", "q", "q">>
W_ab  == <<"a", "b">>

Vocabulary == {W_abc, W_Abd, W_xyz, W_qqq, W_ab}

\* The words of the payment purpose "Oplata za arendu ofisa" (payment for
\* the rent of an office, transliterated) and of the keyword "arenda":
\* "arendu" is the accusative of the noun "arenda", "ofisa" the genitive of
\* the noun "ofis".
W_oplata == <<"o", "p", "l", "a", "t", "a">>
W_arenda == <<"a", "r", "e", "n", "d", "a">>
W_arendu == <<"a", "r", "e", "n", "d", "u">>
W_ofis   == <<"o", "f", "i", "s">>
W_ofisa  == <<"o", "f", "i", "s", "a">>

RentPurpose ==
    <<"O", "p", "l", "a", "t", "a", " ", "z", "a", " ",
      "a", "r", "e", "n", "d", "u", " ", "o", "f", "i", "s", "a">>

\* morph.parse(word)[0].normal_form
MorphNormalForm(word) ==
    IF Lower(word) = W_abd THEN W_abc
    ELSE IF Lower(word) = W_arendu THEN W_arenda
    ELSE IF Lower(word) = W_ofisa THEN W_ofis
    ELSE Lower(word)

\* 'NOUN' in parsed.tag or 'VERB' in parsed.tag
MorphIsNounOrVerb(word) ==
    Lower(word) \in {W_abc, W_abd, W_xyz,
                     W_oplata, W_arenda, W_arendu, W_ofis, W_ofisa}

\* the lemmas of the words of wordnet.get_synsets(word)
WordnetLemmas(word) == IF word \in {W_abc, W_xyz} THEN {W_abc, W_xyz} ELSE {}

(***************************************************************************)
(* NLPProcessor                                                            *)
(***************************************************************************)
\* lemmatize of a processor that uses the analyzer without testing that it
\* was loaded
lemmatizeUnguarded(word) == MorphNormalForm(word)

\* lemmatize of a processor that never has the analyzer
lemmatizeLowerOnly(word) == Lower(word)

\* NLPProcessor.lemmatize
lemmatize(word) ==
    IF ~morph \/ word = <<>> THEN Lower(word) ELSE MorphNormalForm(word)

\* NLPProcessor.get_synonyms (the dictionary's synsets hold fewer words than
\* the limit of 10)
get_synonyms(word) ==
    IF ~wordnet THEN {word}
    ELSE IF WordnetLemmas(word) # {} THEN WordnetLemmas(word) ELSE {word}

Punctuation == {".", "!", "?", ";", ","}

\* the character class [.!?;,\n] of split_into_sentences
SentenceSeparators == Punctuation \cup {"\n"}

StripLongerThanTwo(s) == Len(Strip(s)) > 2

\* NLPProcessor.split_into_sentences.  re.split on a run of separators gives
\* the pieces SplitOn gives, less some empty ones, which the length filter
\* drops either way.
split_into_sentences(text) ==
    IF text = <<>> THEN <<>>
    ELSE LET pieces    == SelectSeq(SplitOn(text, SentenceSeparators),
                                    StripLongerThanTwo)
             sentences == [i \in 1..Len(pieces) |-> Strip(pieces[i])]
         IN  IF sentences # <<>> THEN sentences ELSE <<text>>

\* re.sub(r'[^\w\s]', ' ', s): every character that is neither a word
\* character nor whitespace becomes a space
CleanText(s) ==
    [i \in 1..Len(s) |-> IF s[i] \in Punctuation THEN " " ELSE s[i]]

\* NLPProcessor.extract_keywords
extract_keywords(text) ==
    IF ~morph THEN SplitWords(Lower(text))
    ELSE LET words == SplitWords(CleanText(Lower(text)))
             kept  == SelectSeq(words, LAMBDA w : Len(w) >= 3 /\ MorphIsNounOrVerb(w))
         IN  [i \in 1..Len(kept) |-> MorphNormalForm(kept[i])]

\* NLPProcessor.expand_query_with_synonyms
expand_query_with_synonyms(text) ==
    LET keywords == Range(extract_keywords(text))
    IN  keywords \cup UNION {get_synonyms(k) : k \in keywords}

(***************************************************************************)
(* AdvancedCategoryMatcher                                                 *)
(***************************************************************************)
EXACT_BOOST   == 25
LEMMA_BOOST   == 15
SYNONYM_BOOST == 10
MAX_SCORE     == 100

BoostKeys == {"exact_match", "lemma_match", "synonym_match"}

\* A dict of flags: the keys it holds, and those among them that are True.
EmptyBoosts == [keys |-> {}, on |-> {}]

\* the score returned as accumulated, without the cap
ClampScoreNone(s) == s

\* the last statement of calculate_match_score: min(base_similarity, 1.0)
ClampScore(s) == Min(s, MAX_SCORE)

\* `=` in place of `+=`: the boost replaces the score
SetBoost(score, boost) == boost

\* `base_similarity += <boost>`
AddBoost(score, boost) == score + boost

\* AdvancedCategoryMatcher.calculate_match_score
\* a calculate_match_score whose three tests are an if / elif chain: only
\* the first boost that applies is added
calculate_match_score_elif(transaction_text, category_keyword, base_similarity) ==
    LET text_lower    == Lower(transaction_text)
        keyword_lower == Lower(category_keyword)
        text_lemmas   == {lemmatize(w) :
                            w \in {x \in Range(SplitWords(text_lower)) : Len(x) > 2}}
        exact         == IsSubstr(keyword_lower, text_lower)
        lemma         == ~exact /\ lemmatize(keyword_lower) \in text_lemmas
        syn           == /\ ~exact
                         /\ ~lemma
                         /\ text_lemmas \cap expand_query_with_synonyms(keyword_lower) # {}
    IN  [score  |-> ClampScore(base_similarity
                               + (IF exact THEN EXACT_BOOST ELSE 0)
                               + (IF lemma THEN LEMMA_BOOST ELSE 0)
                               + (IF syn THEN SYNONYM_BOOST ELSE 0)),
         boosts |-> [keys |-> BoostKeys,
                     on   |-> {k \in BoostKeys :
                                  \/ k = "exact_match" /\ exact
                                  \/ k = "lemma_match" /\ lemma
                                  \/ k = "synonym_match" /\ syn}]]

calculate_match_score(transaction_text, category_keyword, base_similarity) ==
    LET text_lower    == Lower(transaction_text)
        keyword_lower == Lower(category_keyword)
        exact         == IsSubstr(keyword_lower, text_lower)
        s1            == IF exact THEN AddBoost(base_similarity, EXACT_BOOST)
                                  ELSE base_similarity
        text_lemmas   == {lemmatize(w) :
                            w \in {x \in Range(SplitWords(text_lower)) : Len(x) > 2}}
        keyword_lemma == lemmatize(keyword_lower)
        lemma         == keyword_lemma \in text_lemmas
        s2            == IF lemma THEN AddBoost(s1, LEMMA_BOOST) ELSE s1
        keyword_synonyms == expand_query_with_synonyms(keyword_lower)
        syn           == text_lemmas \cap keyword_synonyms # {}
        s3            == IF syn THEN AddBoost(s2, SYNONYM_BOOST) ELSE s2
    IN  [score  |-> ClampScore(s3),
         boosts |-> [keys |-> BoostKeys,
                     on   |-> {k \in BoostKeys :
                                  \/ k = "exact_match" /\ exact
                                  \/ k = "lemma_match" /\ lemma
                                  \/ k = "synonym_match" /\ syn}]]

\* calculate_similarity raised (get_embedding re-raises what the provider
\* raised): no similarity
SimFail == -1

\* The (category, keyword) pairs of a keyword table in the order the two
\* nested loops of find_best_category visit them.
RECURSIVE TablePairs(_)
TablePairs(table) ==
    IF table = <<>> THEN <<>>
    ELSE [j \in 1..Len(Head(table).keywords) |->
             [category |-> Head(table).name, keyword |-> Head(table).keywords[j]]]
         \o TablePairs(Tail(table))

\* The inner loop over sentences: the maximum, from 0.0, of
\* calculate_similarity(sentence, keyword).  sim is what calculate_similarity
\* returns for each (sentence, keyword); none of them is SimFail here.
RECURSIVE MaxSimilarity(_, _, _)
MaxSimilarity(sentences, keyword, sim) ==
    IF sentences = <<>> THEN 0
    ELSE Max(sim[<<Head(sentences), keyword>>],
             MaxSimilarity(Tail(sentences), keyword, sim))

\* `if final_score > best_score`: a later pair replaces the best one only
\* with a strictly greater score
Improves(final_score, best_score) == final_score > best_score

\* `Update the best result`: the best so far after a pair of category
\* `category` scored r
Better(category, r, best) ==
    IF Improves(r.score, best.score)
    THEN [category |-> category, score |-> r.score, boosts |-> r.boosts]
    ELSE best

\* The loops of find_best_category over the remaining pairs, from the best
\* so far.
RECURSIVE BestOver(_, _, _, _, _)
BestOver(pairs, sentences, text, sim, best) ==
    IF pairs = <<>> THEN best
    ELSE BestOver(Tail(pairs), sentences, text, sim,
                  Better(Head(pairs).category,
                         calculate_match_score(
                             text, Head(pairs).keyword,
                             MaxSimilarity(sentences, Head(pairs).keyword, sim)),
                         best))

\* `if best_score >= threshold`
ReachesThreshold(best_score, threshold) == best_score >= threshold

NoMatch == [raised |-> FALSE, category |-> None, score |-> 0, boosts |-> EmptyBoosts]
Raised  == [raised |-> TRUE,  category |-> None, score |-> 0, boosts |-> EmptyBoosts]

\* `Return the result only if the threshold is reached`
ThresholdGate(best, threshold) ==
    IF ReachesThreshold(best.score, threshold)
    THEN [raised |-> FALSE, category |-> best.category,
          score |-> best.score, boosts |-> best.boosts]
    ELSE NoMatch

\* The calls calculate_similarity(sentence, keyword) one call of
\* find_best_category makes.
SimilarityCalls(text, table) ==
    {<<s, p.keyword>> : s \in Range(split_into_sentences(text)),
                        p \in Range(TablePairs(table))}

\* a find_best_category that catches what calculate_similarity raises and
\* answers no match
find_best_category_catching(transaction_text, category_keywords, threshold, sim) ==
    IF \E c \in SimilarityCalls(transaction_text, category_keywords) :
           sim[c] = SimFail
    THEN NoMatch
    ELSE ThresholdGate(BestOver(TablePairs(category_keywords),
                                split_into_sentences(transaction_text),
                                transaction_text, sim,
                                [category |-> None, score |-> 0,
                                 boosts |-> EmptyBoosts]),
                       threshold)

\* AdvancedCategoryMatcher.find_best_category.  An exception of
\* calculate_similarity is not caught: the call raises.
find_best_category(transaction_text, category_keywords, threshold, sim) ==
    IF \E c \in SimilarityCalls(transaction_text, category_keywords) :
           sim[c] = SimFail
    THEN Raised
    ELSE ThresholdGate(BestOver(TablePairs(category_keywords),
                                split_into_sentences(transaction_text),
                                transaction_text, sim,
                                [category |-> None, score |-> 0,
                                 boosts |-> EmptyBoosts]),
                       threshold)

(***************************************************************************)
(* Inputs of the matching engine                                           *)
(***************************************************************************)
MaxWords == 2

Joiners == {" ", ","}

\* one to n words of the vocabulary, joined by a space or a comma
RECURSIVE Phrases(_)
Phrases(n) ==
    IF n = 0 THEN {}
    ELSE Vocabulary \cup
         {p \o <<j>> \o w : p \in Phrases(n - 1), j \in Joiners, w \in Vocabulary}

Texts == {<<>>, RentPurpose} \cup Phrases(MaxWords)

Keywords == {W_abc, W_xyz, W_qqq, W_ab, W_arenda, <<>>}

\* what calculate_similarity returns (cosine similarity, in hundredths)
SimLevels == {0, 50, 100}

Thresholds == {0, 70, 100, 101, 151}

CatRent == "Rent"
CatTaxi == "Taxi"
CatArenda == "Arenda"

\* the keyword table with the keyword "arenda" of the category "Arenda"
ArendaTable == << [name |-> CatArenda, keywords |-> <<W_arenda>>] >>

Tables ==
    { <<>>,
      ArendaTable,
      << [name |-> CatRent, keywords |-> <<W_abc>>] >>,
      << [name |-> CatRent, keywords |-> <<W_abc>>],
         [name |-> CatTaxi, keywords |-> <<W_qqq>>] >>,
      << [name |-> CatTaxi, keywords |-> <<W_qqq, W_xyz>>] >> }

(***************************************************************************)
(* The bank's data                                                         *)
(***************************************************************************)
NumAccounts == 2
MaxEntries  == 2
MaxAttemptsBound == 2

\* settings.BANK_ACCOUNTS
BANK_ACCOUNTS == 1..NumAccounts

BATCH_ID == "batch"

DateStrs == {"2025-06-11", ""}

\* strptime raised ValueError: no date
ParseError == <<>>

\* datetime.strptime(date_str, '%Y-%m-%d'), made aware
ParseDate(date_str) ==
    IF date_str = "2025-06-11" THEN <<"2025", "06", "11">>
    ELSE ParseError

Directions == {"Credit", "Debit", None}

InnTexts == { <<>>, <<"7", " ">>, <<"8">> }
NameTexts == { <<"N">> }
Descriptions == { <<" ">> \o W_abd }

OwnParty == [inn |-> <<"9">>, name |-> <<"O">>]
OwnAgent == [identification |-> <<"5">>]
CounterAgent == [identification |-> <<"4", " ">>]

\* One raw transaction object of a statement.  The bank puts the
\* counterparty in the creditor blocks of a debit and in the debtor blocks
\* otherwise, and the account holder in the other ones.
MakePayload(date_str, description, direction, inn, name) ==
    LET cp == [inn |-> inn, name |-> name]
    IN  [documentProcessDate  |-> date_str,
         description          |-> description,
         amount               |-> "100.00",
         creditDebitIndicator |-> direction,
         CreditorParty |-> IF direction = "Debit" THEN cp ELSE OwnParty,
         CreditorAgent |-> IF direction = "Debit" THEN CounterAgent ELSE OwnAgent,
         DebtorParty   |-> IF direction = "Debit" THEN OwnParty ELSE cp,
         DebtorAgent   |-> IF direction = "Debit" THEN OwnAgent ELSE CounterAgent]

Payloads ==
    {MakePayload(d, t, dir, inn, name) :
        d \in DateStrs, t \in Descriptions, dir \in Directions,
        inn \in InnTexts, name \in NameTexts}

\* coin_desk.scripts.keywords.CATEGORY_KEYWORDS
CATEGORY_KEYWORDS == << [name |-> CatRent, keywords |-> <<W_abc>>] >>

\* settings.EMBEDDING_SIMILARITY_THRESHOLD
EMBEDDING_SIMILARITY_THRESHOLD == 70

CatRevenue == "Revenue"
CatOffice  == "Office"

\* the rows of ContractorExpenseMapping: inn -> expense_category
MappedInns == { <<"7">> }
MappingCategory(inn) == CatOffice

SourceDefault == "default"
SourceNlp     == "nlp"
SourceMap     == "map"

(***************************************************************************)
(* Tochka.create_statement, Tochka.get_statement and the loop over the     *)
(* accounts of Tochka.fetch_and_save_statements                            *)
(***************************************************************************)
Pending == "Processing"
Malformed == "Malformed"

\* What the bank answers to the polls of one statement: `pending` times
\* Pending, and `then` from there on.  Malformed is a response without
\* ['Data']['Statement'][0]['status'].
Scripts ==
    [pending : 0..(MaxAttemptsBound + 1), then : {"Ready", "Error", Malformed, Pending}]

\* the response to the poll after n earlier ones
Answer(sc, n) == IF n < sc.pending THEN Pending ELSE sc.then

\* no statement is being polled
NoScript == [pending |-> 0, then |-> None]

\* the loop condition with the bound tested one attempt early
LoopContinuesOneShort(st, n) == st # "Ready" /\ n < max_attempts - 1

\* the loop condition with the bound tested one attempt late
LoopContinuesOneMore(st, n) == st # "Ready" /\ n <= max_attempts

\* `while status != 'Ready' and attempts < max_attempts`
LoopContinues(st, n) == st # "Ready" /\ n < max_attempts

\* the Error status not tested inside the loop
IsErrorStatusNever(st) == FALSE

\* `if status == 'Error'`
IsErrorStatus(st) == st = "Error"

\* The locals of get_statement are gone once the run has moved on from the
\* call.
ForgetGetStatement ==
    /\ status' = None
    /\ attempts' = 0
    /\ polls' = 0
    /\ script' = NoScript

\* an acquisition that fails and still hands one entry to the loop over the
\* entries
AbortButIngest(reason) ==
    /\ acq' = [acq EXCEPT ![acct] = reason]
    /\ pc' = "ingest"
    /\ left' = 1
    /\ UNCHANGED <<acct, failed_before>>

\* An exception leaves fetch_and_save_statements: create_statement is called
\* outside the try, and the except clause re-raises.
Abort(reason) ==
    /\ acq' = [acq EXCEPT ![acct] = reason]
    /\ pc' = "raised"
    /\ UNCHANGED <<acct, left, failed_before>>

\* get_statement has returned the Ready response with n entries; the loop
\* over the entries starts, or with none the next account.
StartBatch(n) ==
    /\ acq' = [acq EXCEPT ![acct] = "Ready"]
    /\ left' = n
    /\ failed_before' = FALSE
    /\ IF n > 0
       THEN /\ pc' = "ingest"
            /\ acct' = acct
       ELSE /\ acct' = acct + 1
            /\ pc' = IF acct + 1 > NumAccounts THEN "done" ELSE "start"

\* The top of the loop over settings.BANK_ACCOUNTS: create_statement, the
\* statementId, and get_statement up to its while loop.
\* http_ok: the POST answered 200; has_id: the response holds
\* ['Data']['Statement']['statementId']; sc: what the bank will answer.
CreateStatement(http_ok, has_id, sc) ==
    /\ pc = "start"
    /\ IF ~http_ok
       THEN /\ Abort("CreateFailed")
            /\ ForgetGetStatement
       ELSE IF ~has_id
       THEN /\ Abort(Malformed)
            /\ ForgetGetStatement
       ELSE /\ status' = None
            /\ attempts' = 0
            /\ polls' = 0
            /\ script' = sc
            /\ IF LoopContinues(None, 0)
               THEN /\ pc' = "polling"
                    /\ UNCHANGED <<acq, acct, left, failed_before>>
               ELSE Abort("TimedOut")
    /\ UNCHANGED <<max_attempts, last>>
    /\ UNCHANGED <<raceVars, nlpVars, matchVars, dbVars, embedVars>>

\* One iteration of the while loop of get_statement, and what follows the
\* loop when it ends.  n: the number of entries of a Ready response.
Poll(n) ==
    /\ pc = "polling"
    /\ polls' = polls + 1
    /\ LET answer == Answer(script, polls)
       IN  IF answer = Malformed
           THEN /\ Abort(Malformed)
                /\ UNCHANGED <<status, attempts>>
           ELSE /\ status' = answer
                /\ IF IsErrorStatus(answer)
                   THEN /\ Abort("StatusError")
                        /\ UNCHANGED attempts
                   ELSE /\ attempts' = attempts + 1
                        /\ IF LoopContinues(answer, attempts + 1)
                           THEN UNCHANGED <<pc, acq, acct, left, failed_before>>
                           ELSE IF answer # "Ready"
                           THEN Abort("TimedOut")
                           ELSE StartBatch(n)
    /\ UNCHANGED <<max_attempts, script, last>>
    /\ UNCHANGED <<raceVars, nlpVars, matchVars, dbVars, embedVars>>

(***************************************************************************)
(* Tochka._save_transaction                                                *)
(***************************************************************************)
\* `if direction == "Debit"` ... `else`: the blocks the counterparty is read from
PartyOf(p) ==
    IF p.creditDebitIndicator = "Debit" THEN p.CreditorParty ELSE p.DebtorParty

\* the agent read from the debtor block of a Credit only
AgentOfCreditOnly(p) ==
    IF p.creditDebitIndicator = "Credit" THEN p.DebtorAgent ELSE p.CreditorAgent

AgentOf(p) ==
    IF p.creditDebitIndicator = "Debit" THEN p.CreditorAgent ELSE p.DebtorAgent

\* the fields of the duplicate check
NaturalKey(row) ==
    <<row.date, row.contractor_inn, row.contractor_bic, row.purpose>>

\* the key computed with the purpose as received, not stripped
PayloadKeyRawPurpose(p) ==
    IF ParseDate(p.documentProcessDate) = ParseError THEN ParseError
    ELSE <<ParseDate(p.documentProcessDate), Strip(PartyOf(p).inn),
           Strip(AgentOf(p).identification), p.description>>

\* The natural key _save_transaction computes for a payload, or ParseError
\* when strptime raises.
PayloadKey(p) ==
    IF ParseDate(p.documentProcessDate) = ParseError THEN ParseError
    ELSE <<ParseDate(p.documentProcessDate), Strip(PartyOf(p).inn),
           Strip(AgentOf(p).identification), Strip(p.description)>>

\* Transaction.objects.filter(date=, contractor_inn=, contractor_bic=,
\* purpose=).exists()
IsDuplicate(rows, key) == \E i \in DOMAIN rows : NaturalKey(rows[i]) = key

\* Contractor.objects.filter(inn=contractor_inn).first(): the row's index,
\* or 0 for None
FirstContractor(rows, inn) ==
    IF \E i \in DOMAIN rows : rows[i].inn = inn
    THEN CHOOSE i \in DOMAIN rows :
             /\ rows[i].inn = inn
             /\ \A j \in DOMAIN rows : rows[j].inn = inn => i <= j
    ELSE 0

UnknownContractor == <<"U", "n", "k", "n", "o", "w", "n">>

\* a find-or-create that renames the Contractor it finds after the payload
ResolveContractorRenaming(rows, p) ==
    LET inn  == Strip(PartyOf(p).inn)
        name == IF Strip(PartyOf(p).name) # <<>> THEN Strip(PartyOf(p).name)
                ELSE UnknownContractor
    IN  IF inn = <<>> THEN rows
        ELSE IF FirstContractor(rows, inn) = 0
        THEN Append(rows, [name |-> name, inn |-> inn,
                           bic  |-> Strip(AgentOf(p).identification)])
        ELSE [rows EXCEPT ![FirstContractor(rows, inn)].name = name]

\* `Find or create Contractor (if INN exists)`: the Contractor table afterwards
ResolveContractor(rows, p) ==
    LET inn  == Strip(PartyOf(p).inn)
        name == Strip(PartyOf(p).name)
    IN  IF inn # <<>> /\ FirstContractor(rows, inn) = 0
        THEN Append(rows, [name |-> IF name # <<>> THEN name ELSE UnknownContractor,
                           inn  |-> inn,
                           bic  |-> Strip(AgentOf(p).identification)])
        ELSE rows

\* the revenue category without its source tag
DefaultRouteUntagged == [category |-> CatRevenue, source |-> None]

\* `if direction == "Credit"`: the fixed revenue category, tagged "default"
DefaultRoute == [category |-> CatRevenue, source |-> SourceDefault]

\* the mapping looked up, its category assigned without the source tag
MappingFallbackUntagged(inn) ==
    IF inn # <<>> /\ inn \in MappedInns
    THEN [category |-> MappingCategory(inn), source |-> None]
    ELSE [category |-> None, source |-> None]

\* `Fallback: try INN mapping if NLP failed`: the first
\* ContractorExpenseMapping of a non-empty INN, tagged "map", else nothing
MappingFallback(inn) ==
    IF inn # <<>> /\ inn \in MappedInns
    THEN [category |-> MappingCategory(inn), source |-> SourceMap]
    ELSE [category |-> None, source |-> None]

\* a Debit branch that writes the source tag `nlp` before it looks at what
\* find_best_category returned
DebitRouteTagsFirst(r, fallback) ==
    IF r.raised
    THEN [raised |-> TRUE, category |-> None, source |-> None,
          created |-> {}, engine |-> None]
    ELSE IF r.category # None
    THEN [raised |-> FALSE, category |-> r.category, source |-> SourceNlp,
          created |-> {r.category}, engine |-> r.category]
    ELSE [raised |-> FALSE, category |-> fallback.category,
          source |-> IF fallback.source # None THEN fallback.source ELSE SourceNlp,
          created |-> {}, engine |-> None]

\* `elif direction == "Debit"` once find_best_category has answered r:
\* its category tagged "nlp", else what the mapping gives
DebitRoute(r, fallback) ==
    IF r.raised
    THEN [raised |-> TRUE, category |-> None, source |-> None,
          created |-> {}, engine |-> None]
    ELSE IF r.category # None
    THEN [raised |-> FALSE, category |-> r.category, source |-> SourceNlp,
          created |-> {r.category}, engine |-> r.category]
    ELSE [raised |-> FALSE, category |-> fallback.category,
          source |-> fallback.source, created |-> {}, engine |-> None]

\* The category decision of _save_transaction: the routing by direction, the
\* matching engine for a debit and the fallback to the INN mapping.
\* created: the ExpenseCategory names get_or_create is called with;
\* engine: the category find_best_category returned, NotRun when not called.
RouteCategory(direction, purpose, inn, sim) ==
    IF direction = "Credit"
    THEN [raised |-> FALSE, category |-> DefaultRoute.category,
          source |-> DefaultRoute.source,
          created |-> {DefaultRoute.category}, engine |-> NotRun]
    ELSE IF direction = "Debit"
    THEN DebitRoute(find_best_category(purpose, CATEGORY_KEYWORDS,
                                       EMBEDDING_SIMILARITY_THRESHOLD, sim),
                    MappingFallback(inn))
    ELSE [raised |-> FALSE, category |-> None, source |-> None,
          created |-> {}, engine |-> NotRun]

\* The row Transaction.objects.create is called with.
NewRow(p, account, contractor_rows, route) ==
    [batch_id        |-> BATCH_ID,
     date            |-> ParseDate(p.documentProcessDate),
     account         |-> account,
     contractor      |-> FirstContractor(contractor_rows, Strip(PartyOf(p).inn)),
     contractor_inn  |-> Strip(PartyOf(p).inn),
     contractor_bic  |-> Strip(AgentOf(p).identification),
     debit           |-> IF p.creditDebitIndicator = "Debit" THEN p.amount ELSE None,
     credit          |-> IF p.creditDebitIndicator = "Debit" THEN None ELSE p.amount,
     purpose         |-> Strip(p.description),
     expense_category |-> route.category,
     category_source  |-> route.source]

\* a _save_transaction that categorizes before it looks for a duplicate
ReachesEngineBeforeDuplicateCheck(key, dup, direction) ==
    key # ParseError /\ direction = "Debit"

\* _save_transaction gets as far as matcher.find_best_category: the date
\* parsed, the duplicate check found nothing (otherwise `return`), and the
\* direction is Debit
ReachesEngine(key, dup, direction) ==
    key # ParseError /\ ~dup /\ direction = "Debit"

\* The calls of calculate_similarity one _save_transaction makes: those of
\* find_best_category.
SimilarityCallsOf(p) ==
    IF ReachesEngine(PayloadKey(p), IsDuplicate(transactions, PayloadKey(p)),
                     p.creditDebitIndicator)
    THEN SimilarityCalls(Strip(p.description), CATEGORY_KEYWORDS)
    ELSE {}

\* The for loops of fetch_and_save_statements after one more entry: the next
\* entry, the next account, or the end of the run.
AfterEntry ==
    /\ left' = left - 1
    /\ IF left > 1
       THEN /\ pc' = "ingest"
            /\ acct' = acct
       ELSE /\ acct' = acct + 1
            /\ pc' = IF acct + 1 > NumAccounts THEN "done" ELSE "start"

\* an except clause that names KeyError and IndexError only: the ValueError
\* of strptime, the engine's and the database's exceptions pass through
SwallowedKeyErrorOnly(cause) == FALSE

\* `except Exception as e: logger.error(...)`: what _save_transaction does
\* with an exception raised in its body.  TRUE: it returns normally.
Swallowed(cause) == TRUE

\* calculate_similarity raised in one of the calls made: get_embedding
\* re-raised an exception of the provider
ProviderFailed(sim) == \E c \in DOMAIN sim : sim[c] = SimFail

\* history of one _save_transaction call: the direction of its payload,
\* whether it called find_best_category, whether the provider failed in it
CallTrace(direction, engine, provider_failed) ==
    [direction |-> direction, engine |-> engine,
     provider_failed |-> provider_failed]

\* the INNs payloads carry, stripped
KnownInns == {Strip(inn) : inn \in InnTexts} \ {<<>>}

\* nothing seen: per INN, no name yet.  any: the name carried by the first
\* payload with that INN that was not skipped as a duplicate; resolved: the
\* name carried by the first payload with that INN that got past the date
\* and the duplicate check.  Each is a sequence of at most one name.
NothingSeen ==
    [any |-> [i \in KnownInns |-> <<>>], resolved |-> [i \in KnownInns |-> <<>>]]

\* the first name stays
FirstOf(names, name) == IF names = <<>> THEN <<name>> ELSE names

\* history of the names carried, after a payload with this INN and name
Seen(fs, inn, name, dup, malformed) ==
    IF inn = <<>> \/ dup THEN fs
    ELSE [any      |-> [fs.any EXCEPT ![inn] = FirstOf(@, name)],
          resolved |-> IF malformed THEN fs.resolved
                       ELSE [fs.resolved EXCEPT ![inn] = FirstOf(@, name)]]

\* What went wrong in the body of _save_transaction, "none" if nothing
FailureCause(key, dup, route, insert_ok) ==
    IF key = ParseError THEN "malformed"
    ELSE IF dup THEN "none"
    ELSE IF route.raised THEN "engine"
    ELSE IF ~insert_ok THEN "insert"
    ELSE "none"

\* a _save_transaction whose writes are undone when it raises
ContractorsAfterRollback(rows, dup, cause) ==
    IF cause # "none" \/ dup THEN contractors ELSE rows

\* The Contractor table after one _save_transaction call: rows, the table
\* after find-or-create, once the call got as far as that; what is raised
\* later undoes nothing (no transaction.atomic around the body)
ContractorsAfter(rows, dup, cause) ==
    IF cause = "malformed" \/ dup THEN contractors ELSE rows

\* The writes of one _save_transaction call and its return to the loop.
\* dup: the duplicate check found a row; rows: the Contractor table after
\* find-or-create; route: the category decision; cause: what was raised;
\* trace: the history of the call.
Writes(p, dup, rows, route, cause, trace) ==
    /\ contractors' = ContractorsAfter(rows, dup, cause)
    /\ IF cause = "malformed" \/ dup
       THEN UNCHANGED categories
       ELSE categories' = categories \cup route.created
    /\ IF cause = "none" /\ ~dup
       THEN /\ transactions' = Append(transactions, NewRow(p, acct, rows, route))
            /\ origin' = Append(origin,
                                [direction |-> p.creditDebitIndicator,
                                 engine    |-> route.engine,
                                 name      |-> PartyOf(p).name])
       ELSE UNCHANGED <<transactions, origin>>
    /\ first_seen' = Seen(first_seen, Strip(PartyOf(p).inn), PartyOf(p).name,
                          dup, cause = "malformed")
    /\ last' = [outcome |-> IF cause # "none" THEN "error"
                            ELSE IF dup THEN "duplicate" ELSE "saved",
                cause   |-> cause,
                trace   |-> trace]
    /\ IF cause = "none" \/ Swallowed(cause)
       THEN /\ failed_before' = (failed_before \/ cause # "none")
            /\ AfterEntry
       ELSE /\ pc' = "raised"
            /\ UNCHANGED <<failed_before, left, acct>>

\* The body of _save_transaction on the key, the contractor rows and the
\* category decision it computes.
Ingest(p, key, rows, route, insert_ok, provider_failed) ==
    Writes(p, IsDuplicate(transactions, key), rows, route,
           FailureCause(key, IsDuplicate(transactions, key), route, insert_ok),
           CallTrace(p.creditDebitIndicator,
                     ReachesEngine(key, IsDuplicate(transactions, key),
                                   p.creditDebitIndicator),
                     provider_failed))

\* One call self._save_transaction(transaction, account, batch_id) of the
\* loop over the entries.  sim: what calculate_similarity returns;
\* insert_ok: whether Transaction.objects.create succeeds.
SaveTransaction(p, sim, insert_ok) ==
    /\ pc = "ingest"
    /\ left > 0
    /\ Ingest(p, PayloadKey(p), ResolveContractor(contractors, p),
              RouteCategory(p.creditDebitIndicator, Strip(p.description),
                            Strip(PartyOf(p).inn), sim),
              insert_ok, ProviderFailed(sim))
    /\ ForgetGetStatement
    /\ UNCHANGED <<max_attempts, acq>>
    /\ UNCHANGED <<raceVars, nlpVars, matchVars, embedVars>>

(***************************************************************************)
(* The embedding cache (embedding_cache.py) and get_embedding              *)
(***************************************************************************)
\* The texts embedded: two of them differ by the case of one letter only.
CacheTexts == {W_abc, W_abd, W_Abd}

TextIndex(t) == IF t = W_abc THEN 1 ELSE IF t = W_abd THEN 2 ELSE 3

\* how many different vectors the provider may answer for one text
MaxVersions == 2

\* What client.embeddings.create answers for `input`: a vector that depends
\* on the input, and on the day for a provider that is not stable.
ProviderVector(input, version) == <<TextIndex(input), version>>

Vectors == {ProviderVector(t, n) : t \in CacheTexts, n \in 1..MaxVersions}

\* None, or an empty list: what fails `if cached`
NoEmbedding == <<>>

Digits == <<"0", "1", "2", "3", "4", "5", "6", "7", "8", "9">>

DigitOf(n) == Digits[n + 1]

NumberOf(c) == (CHOOSE i \in DOMAIN Digits : Digits[i] = c[1]) - 1

\* json.dumps(embedding): "[a,b]" as a sequence of characters
RECURSIVE DumpItems(_)
DumpItems(v) ==
    IF v = <<>> THEN <<>>
    ELSE IF Len(v) = 1 THEN <<DigitOf(v[1])>>
    ELSE <<DigitOf(v[1]), ",">> \o DumpItems(Tail(v))

Dumps(v) == <<"[">> \o DumpItems(v) \o <<"]">>

\* json.loads(row[0])
Loads(s) ==
    LET items == SelectSeq(SplitOn(SubSeq(s, 2, Len(s) - 1), {","}), NonEmpty)
    IN  [i \in 1..Len(items) |-> NumberOf(items[i])]

\* the key lower-cased before it reaches the table
CacheKeyLowered(text) == Lower(text)

\* `WHERE text = ?` / `VALUES (?, ?)`: the key is the text as passed
CacheKey(text) == text

\* SELECT embedding FROM embedding_cache WHERE text = ?
SelectRows(rows, text) == {r \in rows : r.text = CacheKey(text)}

\* get_cached_embedding.  db_ok: no exception in the try block.
get_cached_embedding(rows, text, db_ok) ==
    IF db_ok /\ SelectRows(rows, text) # {}
    THEN Loads((CHOOSE r \in SelectRows(rows, text) : TRUE).embedding)
    ELSE NoEmbedding

\* a write that leaves the new row alone in the table
InsertAlone(rows, text, embedding) ==
    {[text |-> CacheKey(text), embedding |-> Dumps(embedding)]}

\* a plain INSERT that does not replace the row of the key
InsertKeepingOld(rows, text, embedding) ==
    rows \cup {[text |-> CacheKey(text), embedding |-> Dumps(embedding)]}

\* INSERT OR REPLACE INTO embedding_cache (text, embedding): text is the
\* PRIMARY KEY, the row of the key is replaced
InsertOrReplace(rows, text, embedding) ==
    {r \in rows : r.text # CacheKey(text)}
        \cup {[text |-> CacheKey(text), embedding |-> Dumps(embedding)]}

\* save_embedding without conn.commit(): the insert is lost with the
\* connection
save_embedding_uncommitted(rows, text, embedding, db_ok) == rows

\* a save_embedding whose statement takes effect although the call failed
save_embedding_half_done(rows, text, embedding, db_ok) ==
    InsertOrReplace(rows, text, embedding)

\* save_embedding: the table afterwards.  db_ok: no exception in the try
\* block; an exception is logged and nothing is committed.
save_embedding(rows, text, embedding, db_ok) ==
    IF db_ok THEN InsertOrReplace(rows, text, embedding) ELSE rows

\* The record of one get_embedding call.  had_entry: the table held a row
\* for the text; lookup_ok: the lookup ran without a database error;
\* called: client.embeddings.create was called; stored: the save committed;
\* result: the vector returned, NoEmbedding when the call raised.
Call(text, had_entry, lookup_ok, outcome, called, stored, result) ==
    [text |-> text, had_entry |-> had_entry, lookup_ok |-> lookup_ok,
     outcome |-> outcome, called |-> called, stored |-> stored,
     result |-> result]

NoCall == Call(<<>>, FALSE, FALSE, NotRun, FALSE, FALSE, NoEmbedding)

\* `if not client: raise RuntimeError(...)`, the first statement of
\* get_embedding
ClientMissing == ~client

\* the provider's exception handled by caching a zero vector for the text
\* (version 0: the provider raised)
RequestFromApiCachingFailure(text, had_entry, lookup_ok, version, write_ok) ==
    /\ embedding_cache' =
           save_embedding(embedding_cache, text,
                          IF version = 0 THEN <<0>>
                          ELSE ProviderVector(text, version), write_ok)
    /\ written' = IF write_ok
                  THEN [written EXCEPT ![text] =
                            IF version = 0 THEN <<0>>
                            ELSE ProviderVector(text, version)]
                  ELSE written
    /\ cur' = Call(text, had_entry, lookup_ok,
                   IF version = 0 THEN "provider_failed" ELSE "fetched",
                   TRUE, write_ok,
                   IF version = 0 THEN NoEmbedding
                   ELSE ProviderVector(text, version))

\* `Request from API`: client.embeddings.create, save_embedding, return; an
\* exception of the provider is logged and re-raised (version 0).
RequestFromApi(text, had_entry, lookup_ok, version, write_ok) ==
    IF version = 0
    THEN /\ cur' = Call(text, had_entry, lookup_ok, "provider_failed", TRUE, FALSE,
                        NoEmbedding)
         /\ UNCHANGED <<embedding_cache, written>>
    ELSE /\ embedding_cache' =
                save_embedding(embedding_cache, text,
                               ProviderVector(text, version), write_ok)
         /\ written' = IF write_ok
                       THEN [written EXCEPT ![text] = ProviderVector(text, version)]
                       ELSE written
         /\ cur' = Call(text, had_entry, lookup_ok, "fetched", TRUE, write_ok,
                        ProviderVector(text, version))

\* get_embedding(text) once get_cached_embedding has answered `cached`
GetEmbeddingWith(text, had_entry, lookup_ok, cached, version, write_ok) ==
    IF ClientMissing
    THEN /\ cur' = Call(text, had_entry, FALSE, "no_client", FALSE, FALSE,
                        NoEmbedding)
         /\ UNCHANGED <<embedding_cache, written>>
    ELSE IF cached # NoEmbedding
    THEN /\ cur' = Call(text, had_entry, lookup_ok, "hit", FALSE, FALSE, cached)
         /\ UNCHANGED <<embedding_cache, written>>
    ELSE RequestFromApi(text, had_entry, lookup_ok, version, write_ok)

\* One call get_embedding(text).  read_ok, write_ok: the cache database
\* works for the lookup and for the save; version: which vector the
\* provider answers, 0 when it raises.
GetEmbedding(text, read_ok, version, write_ok) ==
    /\ GetEmbeddingWith(text, SelectRows(embedding_cache, text) # {}, read_ok,
                        get_cached_embedding(embedding_cache, text, read_ok),
                        version, write_ok)
    /\ prev' = cur
    /\ UNCHANGED client
    /\ UNCHANGED <<raceVars, nlpVars, matchVars, runVars, dbVars>>

\* One call save_embedding(text, embedding) from outside get_embedding.
SaveEmbedding(text, embedding, db_ok) ==
    /\ embedding_cache' = save_embedding(embedding_cache, text, embedding, db_ok)
    /\ written' = IF db_ok THEN [written EXCEPT ![text] = embedding] ELSE written
    /\ UNCHANGED <<client, cur, prev>>
    /\ UNCHANGED <<raceVars, nlpVars, matchVars, runVars, dbVars>>

\* One call get_cached_embedding(text) from outside get_embedding.
GetCachedEmbedding(text, db_ok) ==
    /\ cur' = Call(text, SelectRows(embedding_cache, text) # {}, db_ok, "read",
                   FALSE, FALSE,
                   get_cached_embedding(embedding_cache, text, db_ok))
    /\ prev' = NoCall
    /\ UNCHANGED <<client, embedding_cache, written>>
    /\ UNCHANGED <<raceVars, nlpVars, matchVars, runVars, dbVars>>

(***************************************************************************)
(* get_embedding called by several callers at once.  The statements of a   *)
(* call that touch what the callers share are its lookup (one SELECT) and  *)
(* its save (one INSERT OR REPLACE and commit), which SQLite runs one at a *)
(* time; between them the call asks the provider.  The provider is stable: *)
(* a text always gets the same vector.                                     *)
(***************************************************************************)
NumCallers == 2
Callers == 1..NumCallers

StableVersion == 1

\* at: "idle", then "request" after a lookup that missed, "save" once the
\* provider answered, "done" when the call returned; called: the provider
\* was asked; cache_failed: the lookup or the save hit a database error
Running(at, text, embedding, result, called, cache_failed) ==
    [at |-> at, text |-> text, embedding |-> embedding, result |-> result,
     called |-> called, cache_failed |-> cache_failed]

NotCalling == Running("idle", <<>>, NoEmbedding, NoEmbedding, FALSE, FALSE)

\* `cached = get_cached_embedding(text)` and `if cached: return cached`
AfterLookup(text, cached, read_ok) ==
    IF cached # NoEmbedding
    THEN Running("done", text, NoEmbedding, cached, FALSE, ~read_ok)
    ELSE Running("request", text, NoEmbedding, NoEmbedding, FALSE, ~read_ok)

\* The beginning of a call get_embedding(text) by caller c, up to the
\* return of the cached vector or to the request.
RaceLookup(c, text, read_ok) ==
    /\ running[c].at = "idle"
    /\ ~ClientMissing
    /\ running' = [running EXCEPT ![c] =
                       AfterLookup(text,
                                   get_cached_embedding(embedding_cache, text, read_ok),
                                   read_ok)]
    /\ UNCHANGED <<client, embedding_cache, written, cur, prev>>
    /\ UNCHANGED <<nlpVars, matchVars, runVars, dbVars>>

\* client.embeddings.create(model=EMBEDDING_MODEL, input=text) of caller c
RaceRequest(c) ==
    /\ running[c].at = "request"
    /\ running' = [running EXCEPT ![c] =
                       Running("save", @.text,
                               ProviderVector(@.text, StableVersion),
                               NoEmbedding, TRUE, @.cache_failed)]
    /\ UNCHANGED <<client, embedding_cache, written, cur, prev>>
    /\ UNCHANGED <<nlpVars, matchVars, runVars, dbVars>>

\* save_embedding(text, embedding) and `return embedding` of caller c
RaceSave(c, write_ok) ==
    /\ running[c].at = "save"
    /\ embedding_cache' = save_embedding(embedding_cache, running[c].text,
                                         running[c].embedding, write_ok)
    /\ written' = IF write_ok
                  THEN [written EXCEPT ![running[c].text] = running[c].embedding]
                  ELSE written
    /\ running' = [running EXCEPT ![c] =
                       Running("done", @.text, @.embedding, @.embedding, TRUE,
                               @.cache_failed \/ ~write_ok)]
    /\ UNCHANGED <<client, cur, prev>>
    /\ UNCHANGED <<nlpVars, matchVars, runVars, dbVars>>

\* The process starts again: the module is imported and `client` is set by
\* the try block around OpenAI(); the cache file stays.
Restart(constructed) ==
    /\ client' = constructed
    /\ client' # client
    /\ UNCHANGED <<embedding_cache, written, cur, prev>>
    /\ UNCHANGED <<raceVars, nlpVars, matchVars, runVars, dbVars>>

\* no cache file yet, no call made
IdleEmbed ==
    /\ running = [c \in Callers |-> NotCalling]
    /\ embedding_cache = {}
    /\ written = [t \in CacheTexts |-> NoEmbedding]
    /\ cur = NoCall
    /\ prev = NoCall

(***************************************************************************)
(* The run of fetch_and_save_statements                                    *)
(***************************************************************************)
NoLast == [outcome |-> NotRun, cause |-> "none",
           trace |-> CallTrace(None, FALSE, FALSE)]

NoScore == [score |-> 0, boosts |-> EmptyBoosts]

IdleMatch ==
    /\ m_text = <<>>
    /\ m_keyword = <<>>
    /\ m_base = 0
    /\ m_table = <<>>
    /\ m_threshold = 0
    /\ m_score = NoScore
    /\ m_sim = <<>>
    /\ m_sentences = <<>>
    /\ m_best = NoMatch
    /\ m_pc = "input"

EmptyDb ==
    /\ transactions = <<>>
    /\ origin = <<>>
    /\ contractors = <<>>
    /\ categories = {CatOffice}
    /\ first_seen = NothingSeen

IdleRun ==
    /\ pc = "start"
    /\ acct = 1
    /\ status = None
    /\ attempts = 0
    /\ polls = 0
    /\ script = NoScript
    /\ acq = [a \in BANK_ACCOUNTS |-> NotRun]
    /\ left = 0
    /\ last = NoLast
    /\ failed_before = FALSE

Init ==
    /\ morph = TRUE
    /\ wordnet = TRUE
    /\ IdleMatch
    /\ max_attempts \in 0..MaxAttemptsBound
    /\ IdleRun
    /\ EmptyDb
    /\ client = TRUE
    /\ IdleEmbed

Next ==
    \/ \E http_ok \in BOOLEAN, has_id \in BOOLEAN, sc \in Scripts :
           CreateStatement(http_ok, has_id, sc)
    \/ \E n \in 0..MaxEntries : Poll(n)
    \/ \E p \in Payloads, insert_ok \in BOOLEAN :
           \E sim \in [SimilarityCallsOf(p) -> SimLevels \cup {SimFail}] :
               SaveTransaction(p, sim, insert_ok)

Spec == Init /\ [][Next]_vars

(***************************************************************************)
(* _save_transaction on its own: the calls of the loop over the entries of *)
(* one statement, on payloads that differ in the name of the counterparty  *)
(* and in the purpose.                                                     *)
(***************************************************************************)
MaxIngest == 3

IngestNames == { <<"N">>, <<"M", " ">>, <<>> }
IngestDescriptions == { <<" ">> \o W_abd, W_xyz }
IngestInns == { <<>>, <<"8">> }

IngestPayloads ==
    {MakePayload(d, t, dir, inn, name) :
        d \in DateStrs, t \in IngestDescriptions, dir \in {"Credit", "Debit"},
        inn \in IngestInns, name \in IngestNames}

\* get_statement has returned the statement of the last account, with 1 to
\* MaxIngest entries
InitIngest ==
    /\ morph = TRUE
    /\ wordnet = TRUE
    /\ IdleMatch
    /\ max_attempts = 1
    /\ pc = "ingest"
    /\ acct = NumAccounts
    /\ status = None
    /\ attempts = 0
    /\ polls = 0
    /\ script = NoScript
    /\ acq = [a \in BANK_ACCOUNTS |-> "Ready"]
    /\ left \in 1..MaxIngest
    /\ last = NoLast
    /\ failed_before = FALSE
    /\ EmptyDb
    /\ client = TRUE
    /\ IdleEmbed

NextIngest ==
    \E p \in IngestPayloads, insert_ok \in BOOLEAN :
        \E sim \in [SimilarityCallsOf(p) -> SimLevels \cup {SimFail}] :
            SaveTransaction(p, sim, insert_ok)

SpecIngest == InitIngest /\ [][NextIngest]_vars

(***************************************************************************)
(* The matching engine on its own: one call of calculate_match_score or of *)
(* find_best_category on a text, in each mode of the lexical processor.    *)
(***************************************************************************)
InitMatch ==
    /\ morph \in BOOLEAN
    /\ wordnet \in BOOLEAN
    /\ m_text \in Texts
    /\ m_keyword = <<>>
    /\ m_base = 0
    /\ m_table = <<>>
    /\ m_threshold = 0
    /\ m_score = NoScore
    /\ m_sim = <<>>
    /\ m_sentences = <<>>
    /\ m_best = NoMatch
    /\ m_pc = "input"
    /\ max_attempts = 0
    /\ IdleRun
    /\ EmptyDb
    /\ client = TRUE
    /\ IdleEmbed

CalcScore(keyword, base) ==
    /\ m_pc = "input"
    /\ m_keyword' = keyword
    /\ m_base' = base
    /\ m_score' = calculate_match_score(m_text, keyword, base)
    /\ m_pc' = "scored"
    /\ UNCHANGED <<m_text, m_table, m_threshold, m_sim, m_best, m_sentences>>
    /\ UNCHANGED <<raceVars, nlpVars, runVars, dbVars, embedVars>>

FindBest(table, threshold, sim) ==
    /\ m_pc = "input"
    /\ m_table' = table
    /\ m_threshold' = threshold
    /\ m_sim' = sim
    /\ m_best' = find_best_category(m_text, table, threshold, sim)
    /\ m_pc' = "matched"
    /\ UNCHANGED <<m_text, m_keyword, m_base, m_score, m_sentences>>
    /\ UNCHANGED <<raceVars, nlpVars, runVars, dbVars, embedVars>>

\* one call of split_into_sentences on the text
SplitSentences ==
    /\ m_pc = "input"
    /\ m_sentences' = split_into_sentences(m_text)
    /\ m_pc' = "split"
    /\ UNCHANGED <<m_text, m_keyword, m_base, m_table, m_threshold, m_sim,
                   m_score, m_best>>
    /\ UNCHANGED <<raceVars, nlpVars, runVars, dbVars, embedVars>>

NextMatch ==
    \/ SplitSentences
    \/ \E keyword \in Keywords, base \in SimLevels : CalcScore(keyword, base)
    \/ \E table \in Tables, threshold \in Thresholds :
           \E sim \in [SimilarityCalls(m_text, table) -> SimLevels \cup {SimFail}] :
               FindBest(table, threshold, sim)

SpecMatch == InitMatch /\ [][NextMatch]_vars

(***************************************************************************)
(* The embedding provider adapter on its own: get_embedding calls and      *)
(* restarts of the process; and the cache module on its own: calls of      *)
(* save_embedding and get_cached_embedding.                                *)
(***************************************************************************)
InitEmbed ==
    /\ morph = TRUE
    /\ wordnet = TRUE
    /\ IdleMatch
    /\ max_attempts = 0
    /\ IdleRun
    /\ EmptyDb
    /\ client \in BOOLEAN
    /\ IdleEmbed

NextEmbed ==
    \/ \E text \in CacheTexts, read_ok \in BOOLEAN, version \in 0..MaxVersions,
          write_ok \in BOOLEAN :
           GetEmbedding(text, read_ok, version, write_ok)
    \/ \E constructed \in BOOLEAN : Restart(constructed)

SpecEmbed == InitEmbed /\ [][NextEmbed]_vars

\* the callers start with a cache that holds the vector of one text
InitRace ==
    /\ morph = TRUE
    /\ wordnet = TRUE
    /\ IdleMatch
    /\ max_attempts = 0
    /\ IdleRun
    /\ EmptyDb
    /\ client = TRUE
    /\ embedding_cache =
           InsertOrReplace({}, W_Abd, ProviderVector(W_Abd, StableVersion))
    /\ written = [t \in CacheTexts |->
                     IF t = W_Abd THEN ProviderVector(W_Abd, StableVersion)
                     ELSE NoEmbedding]
    /\ cur = NoCall
    /\ prev = NoCall
    /\ running = [c \in Callers |-> NotCalling]

NextRace ==
    \/ \E c \in Callers, text \in CacheTexts, read_ok \in BOOLEAN :
           RaceLookup(c, text, read_ok)
    \/ \E c \in Callers : RaceRequest(c)
    \/ \E c \in Callers, write_ok \in BOOLEAN : RaceSave(c, write_ok)

SpecRace == InitRace /\ [][NextRace]_vars

NextCache ==
    \/ \E text \in CacheTexts, db_ok \in BOOLEAN : GetCachedEmbedding(text, db_ok)
    \/ \E text \in CacheTexts, embedding \in Vectors, db_ok \in BOOLEAN :
           SaveEmbedding(text, embedding, db_ok)

SpecCache == InitEmbed /\ [][NextCache]_vars

(***************************************************************************)
(* Polling termination                                                     *)
(***************************************************************************)
\* A call of get_statement has ended and the run has not moved on yet:
\* script, polls, status and attempts are those of the call.
EndedCall == pc # "polling" /\ script # NoScript

\* the account that call was for
EndedAccount == IF pc \in {"ingest", "raised"} THEN acct ELSE acct - 1

\* how it ended
Outcome == acq[EndedAccount]

\* the statement answers Ready after k non-Ready, non-Error statuses
ReadyAfter(k) == script.then = "Ready" /\ script.pending = k

\* C1: a statement whose statuses are k non-Ready, non-Error ones and then
\* Ready, with k + 1 <= max_attempts, makes get_statement return the Ready
\* response after exactly k + 1 polls, k + 1 = max_attempts included.
C1_ReadyAfterKPlusOnePolls ==
    \A k \in 0..MaxAttemptsBound :
        (EndedCall /\ ReadyAfter(k) /\ k + 1 <= max_attempts)
            => (Outcome = "Ready" /\ polls = k + 1 /\ status = "Ready")

C1_Witness ==
    /\ EndedCall
    /\ ReadyAfter(1)
    /\ max_attempts = 2
    /\ Outcome = "Ready"
    /\ polls = 2

\* none of the first max_attempts polls is answered Ready, Error or without
\* a status
NeverReady ==
    \A i \in 0..(max_attempts - 1) : Answer(script, i) = Pending

C3_ErrorShortCircuits ==
    \A k \in 0..MaxAttemptsBound :
        (EndedCall /\ script.then = "Error" /\ script.pending = k
                   /\ k + 1 <= max_attempts)
            => (Outcome = "StatusError" /\ polls = k + 1 /\ pc = "raised")

C3_Witness ==
    /\ EndedCall
    /\ script.then = "Error"
    /\ script.pending = 1
    /\ max_attempts = 2
    /\ Outcome = "StatusError"
    /\ polls = 2

(***************************************************************************)
(* Ingestion                                                               *)
(***************************************************************************)
\* C4: after any sequence of _save_transaction calls the Transaction table
\* holds at most one row per natural key (date, INN, BIC, purpose), so a
\* payload ingested twice leaves exactly one row.
C4_OneRowPerNaturalKey ==
    \A i, j \in DOMAIN transactions :
        NaturalKey(transactions[i]) = NaturalKey(transactions[j]) => i = j

C4_Witness ==
    /\ last.outcome = "duplicate"
    /\ Len(transactions) = 1

\* C5: a row saved from a Credit payload has the revenue category and the
\* source tag "default"; a row saved from a Debit payload never has the
\* source tag "default".
C5_CreditIsDefaultRevenue ==
    \A i \in DOMAIN transactions :
        /\ origin[i].direction = "Credit"
               => /\ transactions[i].expense_category = CatRevenue
                  /\ transactions[i].category_source = SourceDefault
                  /\ CatRevenue \in categories
        /\ origin[i].direction = "Debit"
               => transactions[i].category_source # SourceDefault

C5_Witness ==
    /\ \E i \in DOMAIN transactions :
           /\ origin[i].direction = "Credit"
           /\ transactions[i].credit # None
    /\ \E i \in DOMAIN transactions :
           /\ origin[i].direction = "Debit"
           /\ transactions[i].category_source = SourceMap

\* the row is a debit for which find_best_category returned no category
UnmatchedDebit(i) ==
    origin[i].direction = "Debit" /\ origin[i].engine = None

\* C6: a row saved from a debit for which the engine returned no category
\* has the mapping's category and the source tag of the mapping when its
\* INN has a ContractorExpenseMapping, and no category and no source tag
\* when its INN has none or is empty.
C6_MappingFallback ==
    \A i \in DOMAIN transactions :
        UnmatchedDebit(i) =>
            LET row == transactions[i]
            IN  IF row.contractor_inn \in MappedInns
                THEN /\ row.expense_category = MappingCategory(row.contractor_inn)
                     /\ row.category_source = SourceMap
                ELSE /\ row.expense_category = None
                     /\ row.category_source = None

C6_Witness ==
    /\ \E i \in DOMAIN transactions :
           /\ UnmatchedDebit(i)
           /\ transactions[i].contractor_inn \in MappedInns
           /\ transactions[i].expense_category = CatOffice
    /\ \E i \in DOMAIN transactions :
           /\ UnmatchedDebit(i)
           /\ transactions[i].contractor_inn = <<>>
    /\ \E i \in DOMAIN transactions :
           /\ UnmatchedDebit(i)
           /\ transactions[i].contractor_inn = <<"8">>

\* C7: a _save_transaction call never ends the loop over the entries of a
\* statement, whatever happens to its payload: each call takes one entry
\* off the batch and the run goes on to the next entry or, after the last,
\* to the next account; so the payloads after a failed one are still
\* ingested, and saved when valid and new.
C7_FailureKeepsBatchGoing ==
    [][pc = "ingest" =>
          /\ pc' # "raised"
          /\ left' = left - 1
          /\ (left > 1 => pc' = "ingest" /\ acct' = acct)
          /\ (left = 1 => pc' \in {"start", "done"} /\ acct' = acct + 1)
          /\ (last'.outcome = "error" => failed_before')]_vars

C7_Witness ==
    /\ failed_before
    /\ last.outcome = "saved"
    /\ Len(transactions) >= 1

\* C8: an account whose statement acquisition fails does not keep the
\* accounts after it from being processed: when the run has ended, every
\* configured account has had its statement requested.
C8_AccountsIndependent ==
    pc \in {"done", "raised"} => \A a \in BANK_ACCOUNTS : acq[a] # NotRun

(***************************************************************************)
(* Duplicates and provider failures in _save_transaction                   *)
(***************************************************************************)
\* C17: a _save_transaction call whose payload has the natural key of an
\* existing row returns normally and changes nothing: the Transaction table
\* is left as it was, no Contractor and no ExpenseCategory row is created,
\* and find_best_category is not called.
C17_DuplicateIsNoOp ==
    [][(pc = "ingest" /\ last'.outcome = "duplicate") =>
          /\ transactions' = transactions
          /\ origin' = origin
          /\ contractors' = contractors
          /\ categories' = categories
          /\ ~last'.trace.engine
          /\ ~last'.trace.provider_failed
          /\ last'.cause = "none"
          /\ pc' # "raised"]_vars

\* a Debit payload was skipped as the duplicate of a row saved from a Debit
C17_Witness ==
    /\ last.outcome = "duplicate"
    /\ last.trace.direction = "Debit"
    /\ ~last.trace.engine
    /\ \E i \in DOMAIN origin : origin[i].direction = "Debit"
    /\ pc # "raised"

\* C20: when the provider fails while find_best_category is categorizing a
\* Debit payload, the failure comes out of find_best_category as an
\* exception, _save_transaction catches it, no Transaction row is saved for
\* the payload, and the call returns normally to the loop over the entries.
C20_ProviderFailureSkipsPayload ==
    [][(pc = "ingest" /\ last'.trace.provider_failed) =>
          /\ last'.trace.engine
          /\ last'.trace.direction = "Debit"
          /\ last'.outcome = "error"
          /\ last'.cause = "engine"
          /\ transactions' = transactions
          /\ origin' = origin
          /\ pc' # "raised"
          /\ left' = left - 1]_vars

\* the provider failed on a payload of a batch of which a payload had been saved
C20_Witness ==
    /\ last.trace.provider_failed
    /\ last.cause = "engine"
    /\ pc \in {"ingest", "start", "done"}
    /\ Len(transactions) >= 1

(***************************************************************************)
(* No partial state                                                        *)
(***************************************************************************)
\* the ways an acquisition fails
AcquisitionFailures == {"CreateFailed", "StatusError", "TimedOut", Malformed}

\* C24: nothing is persisted for an account whose acquisition fails: the
\* Transaction, Contractor and ExpenseCategory tables are written only by
\* the loop over the entries of an account whose get_statement returned the
\* Ready response, no step in which an acquisition fails writes to them,
\* and no Transaction row belongs to an account whose acquisition failed.
C24_NoPartialState ==
    [][/\ (<<transactions, contractors, categories>>'
              # <<transactions, contractors, categories>>)
          => (pc = "ingest" /\ acq[acct] = "Ready")
       /\ (\E a \in BANK_ACCOUNTS :
              acq'[a] \in AcquisitionFailures /\ acq[a] \notin AcquisitionFailures)
          => <<transactions, contractors, categories>>'
                = <<transactions, contractors, categories>>
       /\ \A i \in DOMAIN transactions' :
              acq'[transactions'[i].account] = "Ready"]_vars

\* the statement of the first account was ingested and the acquisition for
\* the second failed
C24_Witness ==
    /\ acq[1] = "Ready"
    /\ acq[2] \in AcquisitionFailures
    /\ Len(transactions) >= 1
    /\ \A i \in DOMAIN transactions : transactions[i].account = 1
    /\ pc = "raised"

(***************************************************************************)
(* Category and source                                                     *)
(***************************************************************************)
\* C26: every Transaction row _save_transaction creates has a category if
\* and only if it has a category source: the sources default, nlp and map
\* come with a category, and a row without category has no source.
C26_CategoryIffSource ==
    \A i \in DOMAIN transactions :
        /\ (transactions[i].expense_category # None)
               = (transactions[i].category_source # None)
        /\ transactions[i].category_source
               \in {SourceDefault, SourceNlp, SourceMap, None}
        /\ transactions[i].expense_category \in categories \cup {None}

\* a row categorized by the engine and a row left without category
C26_Witness ==
    /\ \E i \in DOMAIN transactions :
           /\ transactions[i].category_source = SourceNlp
           /\ transactions[i].expense_category = CatRent
    /\ \E i \in DOMAIN transactions :
           /\ origin[i].direction = "Debit"
           /\ transactions[i].category_source = None
           /\ transactions[i].expense_category = None

(***************************************************************************)
(* Payloads that are neither Credit nor Debit                              *)
(***************************************************************************)
\* the row was saved from a payload whose creditDebitIndicator is neither
\* "Credit" nor "Debit"
OtherDirection(i) == origin[i].direction \notin {"Credit", "Debit"}

\* C27: a payload whose creditDebitIndicator is neither Credit nor Debit is
\* saved like any other: with the counterparty read from the debtor blocks,
\* the amount as credit and no debit, no category and no source, the
\* engine not called and the INN mapping not used; and no row has both a
\* debit and a credit.
C27_OtherDirectionIsSaved ==
    /\ \A i \in DOMAIN transactions :
           OtherDirection(i) =>
               /\ transactions[i].contractor_bic = Strip(CounterAgent.identification)
               /\ transactions[i].contractor_inn \in {Strip(inn) : inn \in InnTexts}
               /\ transactions[i].credit = "100.00"
               /\ transactions[i].debit = None
               /\ transactions[i].expense_category = None
               /\ transactions[i].category_source = None
               /\ origin[i].engine = NotRun
    /\ \A i \in DOMAIN transactions :
           transactions[i].debit = None \/ transactions[i].credit = None
    /\ (last.outcome = "saved" /\ last.trace.direction \notin {"Credit", "Debit"})
           => (~last.trace.engine /\ OtherDirection(Len(transactions)))

\* such a payload was saved, with an INN that has a mapping
C27_Witness ==
    /\ last.outcome = "saved"
    /\ last.trace.direction = None
    /\ transactions[Len(transactions)].contractor_inn \in MappedInns
    /\ transactions[Len(transactions)].expense_category = None
    /\ transactions[Len(transactions)].credit # None

(***************************************************************************)
(* Contractors                                                             *)
(***************************************************************************)
\* the Contractor rows with this INN
ContractorsOf(inn) == {i \in DOMAIN contractors : contractors[i].inn = inn}

\* at most one Contractor per INN, none with an empty INN, and a Transaction
\* row is linked to the Contractor of its INN, or to none when it has no INN
OneContractorPerInn ==
    /\ \A i, j \in DOMAIN contractors :
           contractors[i].inn = contractors[j].inn => i = j
    /\ \A i \in DOMAIN contractors : contractors[i].inn # <<>>
    /\ \A i \in DOMAIN transactions :
           IF transactions[i].contractor_inn = <<>>
           THEN transactions[i].contractor = 0
           ELSE /\ transactions[i].contractor \in DOMAIN contractors
                /\ contractors[transactions[i].contractor].inn
                       = transactions[i].contractor_inn

\* the name a Contractor is created with from the name a payload carries
StoredName(name) == IF Strip(name) # <<>> THEN Strip(name) ELSE UnknownContractor

NewlyResolved(fs, fs2) ==
    {inn \in KnownInns : fs.resolved[inn] = <<>> /\ fs2.resolved[inn] # <<>>}

\* C29: _save_transaction is not atomic: when the engine or the insert
\* raises for a payload with an INN not seen before, no Transaction row is
\* saved but the Contractor created for the INN stays; Contractor rows are
\* never removed or changed, and a later payload with that INN that is
\* saved is linked to that Contractor and creates no other.
C29_ContractorSurvivesFailure ==
    [][pc = "ingest" =>
          /\ last'.cause \in {"engine", "insert"} =>
                 /\ transactions' = transactions
                 /\ \A inn \in NewlyResolved(first_seen, first_seen') :
                        /\ ContractorsOf(inn) = {}
                        /\ \E i \in DOMAIN contractors' :
                               i > Len(contractors) /\ contractors'[i].inn = inn
          /\ Len(contractors') >= Len(contractors)
          /\ \A i \in DOMAIN contractors : contractors'[i] = contractors[i]
          /\ (last'.outcome = "saved"
                /\ ContractorsOf(transactions'[Len(transactions')].contractor_inn) # {})
                 => /\ contractors' = contractors
                    /\ transactions'[Len(transactions')].contractor
                           \in ContractorsOf(transactions'[Len(transactions')].contractor_inn)
      ]_vars

\* the only row saved came from a payload named "N" and is linked to the
\* Contractor "M" that an earlier payload, which failed, had created
C29_Witness ==
    /\ last.outcome = "saved"
    /\ failed_before
    /\ Len(transactions) = 1
    /\ Len(contractors) = 1
    /\ transactions[1].contractor = 1
    /\ origin[1].name = <<"N">>
    /\ contractors[1].name = <<"M">>

(***************************************************************************)
(* Scoring                                                                 *)
(***************************************************************************)
\* the texts and keywords the score of the call is compared with
ProbeTexts == {<<>>} \cup Phrases(1)

\* C9: the score calculate_match_score returns is never above 1.0, and with
\* the base similarity fixed it is never lower than the score of a call in
\* which fewer of the boosts (exact, lemma, synonym) apply.
C9_BoostsNeverLowerScore ==
    m_pc = "scored" =>
        /\ m_score.score <= MAX_SCORE
        /\ m_score = calculate_match_score(m_text, m_keyword, m_base)
        /\ \A t \in ProbeTexts, k \in Keywords :
               LET other == calculate_match_score(t, k, m_base)
               IN  other.boosts.on \subseteq m_score.boosts.on
                       => other.score <= m_score.score

C9_Witness ==
    /\ m_pc = "scored"
    /\ m_base = 50
    /\ m_score.boosts.on = BoostKeys
    /\ m_score.score = MAX_SCORE
    /\ \E t \in ProbeTexts, k \in Keywords :
           LET other == calculate_match_score(t, k, m_base)
           IN  /\ other.boosts.on = {"exact_match"}
               /\ other.score < m_score.score

\* some keyword of the table gets every boost on the text
FullyBoosted ==
    \E p \in Range(TablePairs(m_table)) :
        calculate_match_score(m_text, p.keyword, MAX_SCORE).boosts.on = BoostKeys

\* C10: with a threshold above the highest score calculate_match_score can
\* return, find_best_category returns no category, whatever the text, the
\* keyword table and the similarities.
C10_ThresholdAboveMaximum ==
    (m_pc = "matched" /\ m_threshold > MAX_SCORE)
        => (m_best.category = None /\ m_best.score = 0 /\ m_best.boosts = EmptyBoosts)

C10_Witness ==
    /\ m_pc = "matched"
    /\ m_threshold = MAX_SCORE + 1
    /\ FullyBoosted
    /\ ~m_best.raised
    /\ m_best.category = None

(***************************************************************************)
(* The three boosts                                                        *)
(***************************************************************************)
\* the lemmas of the tokens of the lower-cased text longer than 2 characters
TextLemmas(text) ==
    {lemmatize(w) : w \in {x \in Range(SplitWords(Lower(text))) : Len(x) > 2}}

\* the condition of each boost on its own
ExactApplies(text, keyword) == IsSubstr(Lower(keyword), Lower(text))
LemmaApplies(text, keyword) == lemmatize(Lower(keyword)) \in TextLemmas(text)
SynonymApplies(text, keyword) ==
    TextLemmas(text) \cap expand_query_with_synonyms(Lower(keyword)) # {}

\* 1 when the condition holds, 0 otherwise
Indicator(b) == IF b THEN 1 ELSE 0

\* C22: for every text, keyword and base similarity, calculate_match_score
\* returns min(1.0, base + 0.25*[exact] + 0.15*[lemma] + 0.10*[synonym]),
\* each flag decided by its own condition only, and the flags it returns
\* are exactly the boosts that were added.
C22_BoostsStack ==
    m_pc = "scored" =>
        /\ m_score.score =
               Min(MAX_SCORE,
                   m_base + EXACT_BOOST * Indicator(ExactApplies(m_text, m_keyword))
                          + LEMMA_BOOST * Indicator(LemmaApplies(m_text, m_keyword))
                          + SYNONYM_BOOST * Indicator(SynonymApplies(m_text, m_keyword)))
        /\ ("exact_match" \in m_score.boosts.on) = ExactApplies(m_text, m_keyword)
        /\ ("lemma_match" \in m_score.boosts.on) = LemmaApplies(m_text, m_keyword)
        /\ ("synonym_match" \in m_score.boosts.on) = SynonymApplies(m_text, m_keyword)
        /\ m_score.boosts.keys = BoostKeys

\* all three boosts were added to a base of 0
C22_Witness ==
    /\ m_pc = "scored"
    /\ m_base = 0
    /\ m_score.boosts.on = BoostKeys
    /\ m_score.score = EXACT_BOOST + LEMMA_BOOST + SYNONYM_BOOST

\* neither the analyzer nor the dictionary was loaded
Degraded == ~morph /\ ~wordnet

\* C28: in degraded mode, for every text and every keyword of one token,
\* calculate_match_score sets the lemma flag and the synonym flag to the
\* same value and the lemma flag only with the exact flag, so the boosts
\* add up to 0, 0.25 or 0.50.
C28_DegradedBoosts ==
    (m_pc = "scored" /\ Degraded) =>
        /\ ("lemma_match" \in m_score.boosts.on)
               = ("synonym_match" \in m_score.boosts.on)
        /\ "lemma_match" \in m_score.boosts.on
               => "exact_match" \in m_score.boosts.on
        /\ m_score.boosts.on \in {{}, {"exact_match"}, BoostKeys}
        /\ m_score.score \in {Min(MAX_SCORE, m_base + t) :
                                  t \in {0, EXACT_BOOST,
                                         EXACT_BOOST + LEMMA_BOOST + SYNONYM_BOOST}}
        /\ "exact_match" \notin m_score.boosts.on => m_score.score = m_base
        /\ m_score.boosts.on = {"exact_match"}
               => m_score.score = Min(MAX_SCORE, m_base + EXACT_BOOST)

\* in degraded mode, a keyword that is a word of the text got all three
\* boosts on a base of 0.5, and the score is 1.0
C28_Witness ==
    /\ m_pc = "scored"
    /\ Degraded
    /\ m_base = 50
    /\ m_keyword # <<>>
    /\ m_score.boosts.on = BoostKeys
    /\ m_score.score = 50 + EXACT_BOOST + LEMMA_BOOST + SYNONYM_BOOST

(***************************************************************************)
(* Sentences                                                               *)
(***************************************************************************)
\* the trimmed fragments of the text between sentence and clause
\* punctuation that are at least 3 characters long
SurvivingFragments(text) ==
    LET pieces == SelectSeq(SplitOn(text, SentenceSeparators), StripLongerThanTwo)
    IN  [i \in 1..Len(pieces) |-> Strip(pieces[i])]

\* C21: split_into_sentences never returns an empty sequence: for every
\* text, the empty text included, it returns the trimmed fragments of
\* length >= 3, or the text alone when no fragment survives.
C21_NeverEmpty ==
    m_pc = "split" =>
        /\ m_sentences # <<>>
        /\ m_sentences = IF SurvivingFragments(m_text) # <<>>
                         THEN SurvivingFragments(m_text)
                         ELSE <<m_text>>

(***************************************************************************)
(* The rent example                                                        *)
(***************************************************************************)
\* calculate_match_score was called on the payment purpose with the keyword
\* "arenda" and base similarity 0.5
RentScored ==
    /\ m_pc = "scored"
    /\ m_text = RentPurpose
    /\ m_keyword = W_arenda
    /\ m_base = 50

\* find_best_category was called on the payment purpose with the keyword
\* "arenda" of the category "Arenda", threshold 0.7, and the similarity of
\* the purpose to the keyword came out 0.5
RentMatched ==
    /\ m_pc = "matched"
    /\ m_text = RentPurpose
    /\ m_table = ArendaTable
    /\ m_threshold = 70
    /\ \A c \in DOMAIN m_sim : m_sim[c] = 50

\* the debit is given category c with source `nlp`, whatever the INN mapping
\* would have said
DebitCategorizedNlp(r, c) ==
    \A inn \in InnTexts :
        /\ DebitRoute(r, MappingFallback(inn)).category = c
        /\ DebitRoute(r, MappingFallback(inn)).source = SourceNlp

\* C14 as stated: on the rent example the exact-match and the lemma-match
\* boosts both apply, the final score is 0.90, and the debit is categorized
\* "Arenda" with source nlp.
C14_Original ==
    /\ (RentScored /\ morph) =>
           /\ {"exact_match", "lemma_match"} \subseteq m_score.boosts.on
           /\ m_score.score = 90
    /\ (RentMatched /\ morph) =>
           /\ {"exact_match", "lemma_match"} \subseteq m_best.boosts.on
           /\ m_best.score = 90
           /\ DebitCategorizedNlp(m_best, CatArenda)

\* C14: on the rent example, with the morphological analyzer available,
\* the exact-match boost does not apply ("arenda" is not a substring of
\* "oplata za arendu ofisa"), the lemma-match boost (+0.15) and the
\* synonym-match boost (+0.10) apply, the final score is 0.75, which
\* reaches the threshold 0.7, and the debit is categorized "Arenda" with
\* source nlp.
C14_RentExample ==
    /\ (RentScored /\ morph) =>
           /\ m_score.boosts.on = {"lemma_match", "synonym_match"}
           /\ m_score.score = 75
    /\ (RentMatched /\ morph) =>
           /\ m_best.boosts.on = {"lemma_match", "synonym_match"}
           /\ m_best.score = 75
           /\ DebitCategorizedNlp(m_best, CatArenda)

C14_Witness ==
    /\ RentMatched
    /\ morph
    /\ DOMAIN m_sim # {}
    /\ m_best.category = CatArenda
    /\ m_best.score = 50 + LEMMA_BOOST + SYNONYM_BOOST

(***************************************************************************)
(* The best category                                                       *)
(***************************************************************************)
\* the score and the flags of each pair of the table of the call, in the
\* order of TablePairs: calculate_match_score on the greatest similarity
\* of the pair's keyword to a sentence of the text
PairScores(text, table, sim) ==
    [i \in 1..Len(TablePairs(table)) |->
        calculate_match_score(
            text, TablePairs(table)[i].keyword,
            MaxSimilarity(split_into_sentences(text),
                          TablePairs(table)[i].keyword, sim))]

\* the greatest score of a non-empty sequence of scored pairs
MaxScore(scores) ==
    CHOOSE m \in {scores[i].score : i \in DOMAIN scores} :
        \A i \in DOMAIN scores : scores[i].score <= m

\* the pairs that reach the greatest score
BestPairs(scores) == {i \in DOMAIN scores : scores[i].score = MaxScore(scores)}

\* the first of them
FirstBestPair(scores) ==
    CHOOSE i \in BestPairs(scores) : \A j \in BestPairs(scores) : i <= j

\* the call of find_best_category returned and scores are its pairs
ReturnsBestOf(scores, pairs, threshold, result) ==
    IF scores # <<>> /\ MaxScore(scores) >= threshold
    THEN \E i \in BestPairs(scores) :
             result = [raised |-> FALSE, category |-> pairs[i].category,
                       score |-> scores[i].score, boosts |-> scores[i].boosts]
    ELSE result = NoMatch

\* C15: find_best_category returns the category of a pair with the greatest
\* score, with that score and that pair's flags, whenever the greatest score
\* of the pairs of the table is at least the threshold, thresholds of 0 and
\* tables whose pairs all score 0 included; otherwise it returns no
\* category, score 0 and no flags.
C15_BestOrNoMatch ==
    (m_pc = "matched" /\ ~m_best.raised)
        => ReturnsBestOf(PairScores(m_text, m_table, m_sim),
                         TablePairs(m_table), m_threshold, m_best)

\* the category returned when several pairs are tied at the greatest score
ReturnsFirstOfTied(scores, pairs, threshold, result) ==
    (/\ scores # <<>>
     /\ Cardinality(BestPairs(scores)) > 1
     /\ MaxScore(scores) >= threshold)
        => result.category = pairs[FirstBestPair(scores)].category

\* C16: when several pairs of the table reach the same greatest score (and
\* that score is at least the threshold), find_best_category returns the
\* category of the first of them in the order of the table.
C16_FirstOfTiedPairsWins ==
    (m_pc = "matched" /\ ~m_best.raised)
        => ReturnsFirstOfTied(PairScores(m_text, m_table, m_sim),
                              TablePairs(m_table), m_threshold, m_best)

(***************************************************************************)
(* Embedding cache                                                         *)
(***************************************************************************)
\* the rows of the table whose key is t
RowsOf(rows, t) == {r \in rows : r.text = t}

\* cur is the call that followed prev, for the same text, with the client
\* constructed
SameTextAgain ==
    /\ prev.outcome # NotRun
    /\ cur.text = prev.text
    /\ cur.outcome # "no_client"

\* C11: of two get_embedding calls in a row for the same text, the first
\* finding no entry, getting the vector from the provider and storing it,
\* the second is served from the cache: it returns the same vector and does
\* not call the provider, so the provider is called exactly once (the cache
\* database working for the save and for the second lookup).
C11_SecondCallServedFromCache ==
    (/\ SameTextAgain
     /\ prev.outcome = "fetched"
     /\ ~prev.had_entry
     /\ prev.stored
     /\ cur.lookup_ok)
        => (/\ prev.called
            /\ cur.outcome = "hit"
            /\ ~cur.called
            /\ cur.result = prev.result)

C11_Witness ==
    /\ SameTextAgain
    /\ prev.outcome = "fetched"
    /\ ~prev.had_entry
    /\ prev.called
    /\ cur.outcome = "hit"
    /\ cur.result = ProviderVector(W_Abd, 2)

\* C12: every entry of the cache holds, under the text t it is stored for,
\* a vector the provider answered for the input t; and a get_embedding call
\* for one text leaves the entries of every other text as they were.
C12_NoSharedSlot ==
    [][/\ \A r \in embedding_cache' :
              \E n \in 1..MaxVersions :
                  Loads(r.embedding) = ProviderVector(r.text, n)
       /\ \A t \in CacheTexts :
              t # cur'.text =>
                  RowsOf(embedding_cache', t) = RowsOf(embedding_cache, t)]_vars

C12_Witness ==
    /\ RowsOf(embedding_cache, W_abd) # {}
    /\ RowsOf(embedding_cache, W_Abd) # {}
    /\ get_cached_embedding(embedding_cache, W_abd, TRUE) = ProviderVector(W_abd, 1)
    /\ get_cached_embedding(embedding_cache, W_Abd, TRUE) = ProviderVector(W_Abd, 1)

\* C13: a get_embedding call in which the provider raises returns no vector
\* and writes nothing to the cache; so when the text had no entry, the next
\* get_embedding call for it calls the provider again.
C13_ProviderFailureNotCached ==
    [][/\ cur'.outcome = "provider_failed"
              => /\ embedding_cache' = embedding_cache
                 /\ written' = written
                 /\ cur'.result = NoEmbedding
                 /\ cur'.called
       /\ (/\ prev'.outcome = "provider_failed"
           /\ ~prev'.had_entry
           /\ cur'.text = prev'.text
           /\ cur'.outcome # "no_client")
              => cur'.called]_vars

C13_Witness ==
    /\ SameTextAgain
    /\ prev.outcome = "provider_failed"
    /\ ~prev.had_entry
    /\ cur.outcome = "fetched"
    /\ cur.called
    /\ ~cur.had_entry

\* C18: a get_embedding call for a text that has a cache entry returns the
\* stored vector and does not call the provider, whether the client was
\* constructed or not (the cache database answering the lookup).
C18_CacheFirst ==
    (/\ cur.outcome \notin {NotRun, "read"}
     /\ cur.had_entry
     /\ (cur.lookup_ok \/ cur.outcome = "no_client"))
        => (/\ cur.outcome = "hit"
            /\ ~cur.called
            /\ cur.result = written[cur.text])

\* C19: the table holds at most one row per text, and the row of a text
\* holds the vector of the last committed save_embedding for that text; a
\* text never written has no row.
C19_UpsertLastWriteWins ==
    \A t \in CacheTexts :
        /\ Cardinality(RowsOf(embedding_cache, t)) <= 1
        /\ get_cached_embedding(embedding_cache, t, TRUE) = written[t]
        /\ (written[t] = NoEmbedding => RowsOf(embedding_cache, t) = {})

\* a read returned one vector for a text, and a later write replaced it
C19_Witness ==
    /\ cur.outcome = "read"
    /\ cur.result = ProviderVector(W_abc, 1)
    /\ written[cur.text] = ProviderVector(W_abc, 2)
    /\ Cardinality(embedding_cache) = 3

\* the vectors the provider answers for a text
ProviderVectors(t) == {ProviderVector(t, v) : v \in 1..MaxVersions}

\* what a get_embedding step does when the cache database fails: a failed
\* lookup is a miss, and a failed save is swallowed
CacheFailureTolerated ==
    /\ (client /\ ~cur'.lookup_ok) => cur'.called
    /\ (cur'.called /\ cur'.outcome = "fetched") =>
           cur'.result \in ProviderVectors(cur'.text)
    /\ (cur'.outcome = "fetched" /\ ~cur'.stored) =>
           embedding_cache' = embedding_cache

\* C30 as stated: a failed cache read is treated as a miss, a failed cache
\* write is swallowed with the provider's vector returned and the cache
\* unchanged, and the get_embedding call that follows a failed write, for
\* the same text, calls the provider again.
C30_Original ==
    [][client' = client =>
          /\ CacheFailureTolerated
          /\ (/\ client
              /\ cur.outcome = "fetched"
              /\ ~cur.stored
              /\ cur'.text = cur.text) => cur'.called]_vars

\* C30: a failed cache read is treated as a miss (the provider is called),
\* a failed cache write is swallowed (the provider's vector is returned and
\* the cache is left unchanged), and the get_embedding call that follows a
\* failed write, for the same text, calls the provider again when the
\* cache held no entry for the text or its own lookup fails, and is served
\* the entry the cache held otherwise.
C30_CacheFailuresTolerated ==
    [][client' = client =>
          /\ CacheFailureTolerated
          /\ (/\ client
              /\ cur.outcome = "fetched"
              /\ ~cur.stored
              /\ cur'.text = cur.text) =>
                 IF cur.had_entry /\ cur'.lookup_ok
                 THEN /\ cur'.outcome = "hit"
                      /\ ~cur'.called
                      /\ cur'.result = written[cur.text]
                 ELSE cur'.called]_vars

\* a call whose lookup and save both failed, followed by a call for the
\* same text that called the provider again
C30_Witness ==
    /\ SameTextAgain
    /\ prev.outcome = "fetched"
    /\ ~prev.lookup_ok
    /\ ~prev.stored
    /\ ~prev.had_entry
    /\ cur.lookup_ok
    /\ cur.called
    /\ cur.outcome = "fetched"

(***************************************************************************)
(* Concurrent callers                                                      *)
(***************************************************************************)
\* every caller has returned
AllReturned == \A c \in Callers : running[c].at = "done"

\* C25: with a stable provider, under every interleaving of get_embedding
\* calls, each call returns the provider's vector for its text; once the
\* calls for a text that was not cached have returned, the cache holds
\* exactly one entry for the text, equal to that vector (the cache database
\* working); and the entries of the other texts are as they were.
C25_RaceHarmless ==
    /\ \A c \in Callers :
           running[c].at = "done" =>
               running[c].result = ProviderVector(running[c].text, StableVersion)
    /\ \A c \in Callers :
           (AllReturned /\ \A d \in Callers : ~running[d].cache_failed) =>
               /\ Cardinality(RowsOf(embedding_cache, running[c].text)) = 1
               /\ get_cached_embedding(embedding_cache, running[c].text, TRUE)
                      = ProviderVector(running[c].text, StableVersion)
    /\ \A t \in CacheTexts :
           /\ Cardinality(RowsOf(embedding_cache, t)) <= 1
           /\ get_cached_embedding(embedding_cache, t, TRUE)
                  \in {NoEmbedding, ProviderVector(t, StableVersion)}
           /\ (\A c \in Callers : running[c].text # t) =>
                  get_cached_embedding(embedding_cache, t, TRUE)
                      = IF t = W_Abd THEN ProviderVector(W_Abd, StableVersion)
                        ELSE NoEmbedding

\* two callers raced on the same uncached text: both missed, both asked the
\* provider, both saved
C25_Witness ==
    /\ AllReturned
    /\ \A c \in Callers :
           /\ running[c].text = W_abc
           /\ running[c].called
           /\ ~running[c].cache_failed
    /\ Cardinality(embedding_cache) = 2

====
